---------------------------- MODULE Spec2Model ----------------------------
(***************************************************************************)
(* ContextPilot: the context store (in-memory and database backed), the    *)
(* relevance engine and the embedding cache, as state machines.            *)
(*                                                                         *)
(*   Spec       in-memory ContextStore (backend/storage.py)                *)
(*   SpecRank   RelevanceEngine over the in-memory store                   *)
(*   SpecDb     DatabaseContextStore (backend/db_storage.py) and ranking   *)
(*   SpecCache  EmbeddingCache (backend/embedding_cache.py)                *)
(***************************************************************************)
EXTENDS Integers, Sequences, FiniteSets, TLC

VARIABLES contexts,     \* ContextStore._contexts: insertion-ordered dict, a sequence of [key, value]
          embeddings,   \* ContextStore._embeddings: dict key -> vector
          rows,         \* the context_units table of DatabaseContextStore, in row order
          cache,        \* EmbeddingCache.cache: insertion-ordered dict, a sequence of [key, value], value = [embedding, timestamp]
          max_size,     \* EmbeddingCache.max_size
          ttl_seconds,  \* EmbeddingCache.ttl_seconds
          now,          \* time.time()
          threads,      \* the calls in progress on other threads: thread -> [pc, locals]
          ret           \* the last call and what it returned: [op, key, val, out]

vars == <<contexts, embeddings, rows, cache, max_size, ttl_seconds, now, threads, ret>>

storeVars == <<contexts, embeddings>>
cacheVars == <<cache, max_size, ttl_seconds, now>>

(***************************************************************************)
(* Values                                                                  *)
(***************************************************************************)

\* Python's None, True and False where an id or a return value is expected
None == "None"
True == "True"
False == "False"

Ids == {"a", "b"}

RankIds == {"a", "b", "c"}

\* models.ContextStatus
ACTIVE == "active"
SUPERSEDED == "superseded"
ContextStatus == {ACTIVE, SUPERSEDED}

\* models.ContextType
ContextType == {"preference", "decision", "fact", "goal"}

\* the attributes of a ContextUnit: what hasattr(context, key) accepts
UnitFields == {"id", "type", "content", "confidence", "created_at", "last_used",
               "source", "tags", "status", "superseded_by"}

\* ContextUnit(...) as a caller constructs it: status ACTIVE, superseded_by None
ContextUnit(id, type, content, confidence, tags) ==
    [id |-> id, type |-> type, content |-> content, confidence |-> confidence,
     created_at |-> 0, last_used |-> None, source |-> "manual", tags |-> tags,
     status |-> ACTIVE, superseded_by |-> None]

\* Field(ge=0.0, le=1.0) on confidence, in tenths
confidence_in_range(confidence) == confidence >= 0 /\ confidence <= 10

\* the validation pydantic runs when a ContextUnit is constructed: content is
\* a str of any length, confidence has the limits of its Field
validates(type, content, confidence) ==
    type \in ContextType /\ confidence_in_range(confidence)

(***************************************************************************)
(* Helpers on the ordered dict                                             *)
(***************************************************************************)

Range(s) == {s[i] : i \in DOMAIN s}

Keys(d) == {d[i].key : i \in DOMAIN d}

\* d[k] for a key that is present
Lookup(d, k) == (CHOOSE i \in DOMAIN d : d[i].key = k)

ValueOf(d, k) == d[Lookup(d, k)].value

\* d[k] = u: an existing key keeps its position, a new key goes last
DictSet(d, k, u) ==
    IF k \in Keys(d)
    THEN [i \in DOMAIN d |-> IF d[i].key = k THEN [key |-> k, value |-> u] ELSE d[i]]
    ELSE Append(d, [key |-> k, value |-> u])

\* del d[k]
DictDel(d, k) ==
    LET i == Lookup(d, k)
    IN  [j \in 1..(Len(d) - 1) |-> IF j < i THEN d[j] ELSE d[j + 1]]

\* del e[k] on a dict held as a function
MapDel(e, k) == [x \in (DOMAIN e) \ {k} |-> e[x]]

\* e[k] = v on a dict held as a function
MapSet(e, k, v) == [x \in (DOMAIN e) \cup {k} |-> IF x = k THEN v ELSE e[x]]

Ret(op, key, val, out) == [op |-> op, key |-> key, val |-> val, out |-> out]

\* an absent Optional[np.ndarray] argument, and a NULL embedding column
NoEmb == <<>>

(***************************************************************************)
(* ContextStore (backend/storage.py)                                       *)
(***************************************************************************)

\* an updates dict: `set` are its keys with a value that is not None, `nulls`
\* its keys whose value is None, `val` the values of the keys in `set`
Updates(set, nulls, val) == [set |-> set, nulls |-> nulls, val |-> val]

\* the loop of ContextStore.update: setattr for every key whose value is not
\* None and that the unit has as an attribute
update_unit(context, updates) ==
    [f \in DOMAIN context |->
        IF f \in updates.set /\ f \in UnitFields THEN updates.val[f] ELSE context[f]]

add(context, embedding) ==
    /\ contexts' = DictSet(contexts, context.id, context)
    /\ embeddings' = IF embedding # NoEmb
                      THEN MapSet(embeddings, context.id, embedding)
                      ELSE embeddings
    /\ ret' = Ret("add", context.id, None, <<>>)
    /\ UNCHANGED <<rows, cacheVars, threads>>

\* what get returns on the dict d
get_ret(d, context_id) ==
    IF context_id \in Keys(d)
    THEN Ret("get", context_id, "unit", <<ValueOf(d, context_id)>>)
    ELSE Ret("get", context_id, None, <<>>)

get(context_id) ==
    /\ ret' = get_ret(contexts, context_id)
    /\ UNCHANGED <<storeVars, rows, cacheVars, threads>>

\* list_all with the status test left out
list_all_unfiltered(d, include_superseded) ==
    [i \in DOMAIN d |-> d[i].value]

\* the list list_all returns
list_all_of(d, include_superseded) ==
    IF include_superseded
    THEN [i \in DOMAIN d |-> d[i].value]
    ELSE SelectSeq([i \in DOMAIN d |-> d[i].value], LAMBDA c : c.status = ACTIVE)

list_all(include_superseded) ==
    /\ ret' = Ret("list_all", IF include_superseded THEN True ELSE False, "list",
                  list_all_of(contexts, include_superseded))
    /\ UNCHANGED <<storeVars, rows, cacheVars, threads>>

update(context_id, updates) ==
    /\ IF context_id \in Keys(contexts)
       THEN LET context == update_unit(ValueOf(contexts, context_id), updates)
            IN  /\ contexts' = DictSet(contexts, context_id, context)
                /\ ret' = Ret("update", context_id, "unit", <<context>>)
       ELSE /\ contexts' = contexts
            /\ ret' = Ret("update", context_id, None, <<>>)
    /\ UNCHANGED <<embeddings, rows, cacheVars, threads>>

\* delete with the removal of the embedding left out
delete_keeps_embedding(context_id) ==
    /\ IF context_id \in Keys(contexts)
       THEN /\ contexts' = DictDel(contexts, context_id)
            /\ embeddings' = embeddings
            /\ ret' = Ret("delete", context_id, True, <<>>)
       ELSE /\ UNCHANGED storeVars
            /\ ret' = Ret("delete", context_id, False, <<>>)
    /\ UNCHANGED <<rows, cacheVars, threads>>

delete(context_id) ==
    /\ IF context_id \in Keys(contexts)
       THEN /\ contexts' = DictDel(contexts, context_id)
            /\ embeddings' = IF context_id \in DOMAIN embeddings
                              THEN MapDel(embeddings, context_id)
                              ELSE embeddings
            /\ ret' = Ret("delete", context_id, True, <<>>)
       ELSE /\ UNCHANGED storeVars
            /\ ret' = Ret("delete", context_id, False, <<>>)
    /\ UNCHANGED <<rows, cacheVars, threads>>

\* what get_embedding returns on the dict e
get_embedding_ret(e, context_id) ==
    IF context_id \in DOMAIN e
    THEN Ret("get_embedding", context_id, "vector", e[context_id])
    ELSE Ret("get_embedding", context_id, None, <<>>)

get_embedding(context_id) ==
    /\ ret' = get_embedding_ret(embeddings, context_id)
    /\ UNCHANGED <<storeVars, rows, cacheVars, threads>>

update_embedding(context_id, embedding) ==
    /\ IF context_id \notin Keys(contexts)
       THEN /\ embeddings' = embeddings
            /\ ret' = Ret("update_embedding", context_id, False, <<>>)
       ELSE /\ embeddings' = MapSet(embeddings, context_id, embedding)
            /\ ret' = Ret("update_embedding", context_id, True, <<>>)
    /\ UNCHANGED <<contexts, rows, cacheVars, threads>>

\* the list list_with_embeddings returns: the embedding is looked up under the
\* unit's id attribute, not under the key the unit is stored at
list_with_embeddings_of(d, e) ==
    LET hit(x) == x.value.status = ACTIVE /\ x.value.id \in DOMAIN e
        sel == SelectSeq(d, hit)
    IN  [i \in DOMAIN sel |-> [unit |-> sel[i].value, embedding |-> e[sel[i].value.id]]]

list_with_embeddings ==
    /\ ret' = Ret("list_with_embeddings", None, "list",
                  list_with_embeddings_of(contexts, embeddings))
    /\ UNCHANGED <<storeVars, rows, cacheVars, threads>>

\* the old unit is marked first, then the new unit is stored under its own id
supersede(old_id, new_context) ==
    /\ IF old_id \notin Keys(contexts)
       THEN /\ contexts' = contexts
            /\ ret' = Ret("supersede", old_id, False, <<>>)
       ELSE LET old_context == [ValueOf(contexts, old_id) EXCEPT
                                   !.status = SUPERSEDED,
                                   !.superseded_by = new_context.id]
            IN  /\ contexts' = DictSet(DictSet(contexts, old_id, old_context),
                                       new_context.id, new_context)
                /\ ret' = Ret("supersede", old_id, True, <<new_context.id>>)
    /\ UNCHANGED <<embeddings, rows, cacheVars, threads>>

\* supersede statement by statement, as a thread runs it: ContextStore holds
\* no lock, so other calls run between any two of its statements.
\* old_context = self._contexts.get(old_id); if not old_context: return False
supersede_begin(t, old_id, new_context) ==
    /\ t \notin DOMAIN threads
    /\ IF old_id \notin Keys(contexts)
       THEN /\ threads' = threads
            /\ ret' = Ret("supersede", old_id, False, <<>>)
       ELSE /\ threads' = MapSet(threads, t, [pc |-> "status", old_id |-> old_id,
                                              new_context |-> new_context])
            /\ ret' = ret
    /\ UNCHANGED <<storeVars, rows, cacheVars>>

\* old_context.status = ContextStatus.SUPERSEDED
supersede_status(t) ==
    /\ t \in DOMAIN threads
    /\ threads[t].pc = "status"
    /\ contexts' = DictSet(contexts, threads[t].old_id,
                           [ValueOf(contexts, threads[t].old_id) EXCEPT
                               !.status = SUPERSEDED])
    /\ threads' = [threads EXCEPT ![t].pc = "superseded_by"]
    /\ UNCHANGED <<embeddings, rows, cacheVars, ret>>

\* old_context.superseded_by = new_context.id
supersede_superseded_by(t) ==
    /\ t \in DOMAIN threads
    /\ threads[t].pc = "superseded_by"
    /\ contexts' = DictSet(contexts, threads[t].old_id,
                           [ValueOf(contexts, threads[t].old_id) EXCEPT
                               !.superseded_by = threads[t].new_context.id])
    /\ threads' = [threads EXCEPT ![t].pc = "store"]
    /\ UNCHANGED <<embeddings, rows, cacheVars, ret>>

\* self._contexts[new_context.id] = new_context; return True
supersede_store(t) ==
    /\ t \in DOMAIN threads
    /\ threads[t].pc = "store"
    /\ contexts' = DictSet(contexts, threads[t].new_context.id, threads[t].new_context)
    /\ threads' = MapDel(threads, t)
    /\ ret' = Ret("supersede", threads[t].old_id, True, <<threads[t].new_context.id>>)
    /\ UNCHANGED <<embeddings, rows, cacheVars>>

(***************************************************************************)
(* EmbeddingCache (backend/embedding_cache.py)                             *)
(***************************************************************************)

\* the texts the cache is asked about
CacheTexts == {<<"t", "1">>, <<"t", "2">>, <<"t", "3">>}

\* hashlib.sha256(text).hexdigest(): a digest per text, distinct texts
\* having distinct digests
_hash_text(text) ==
    CASE text = <<"t", "1">> -> "6f1e"
      [] text = <<"t", "2">> -> "3a7c"
      [] text = <<"t", "3">> -> "c4d9"

\* len(self.cache) >= self.max_size
cache_full_strict(c, m) == Len(c) > m

cache_full(c, m) == Len(c) >= m

\* the key of the newest entry
newest_key(c) ==
    LET i == CHOOSE i \in DOMAIN c :
                 /\ \A j \in DOMAIN c : c[j].value.timestamp <= c[i].value.timestamp
                 /\ \A j \in 1..(i - 1) : c[j].value.timestamp < c[i].value.timestamp
    IN  c[i].key

\* min(self.cache.items(), key=lambda x: x[1][1])[0]: the first entry, in dict
\* order, among those with the least timestamp
oldest_key(c) ==
    LET i == CHOOSE i \in DOMAIN c :
                 /\ \A j \in DOMAIN c : c[i].value.timestamp <= c[j].value.timestamp
                 /\ \A j \in 1..(i - 1) : c[i].value.timestamp < c[j].value.timestamp
    IN  c[i].key

\* what get returns on the cache c at time t, with time-to-live ttl; out
\* notes the "Cache entry expired" line the expired branch logs
cache_get_ret(c, t, ttl, text) ==
    LET key == _hash_text(text)
    IN  IF key \notin Keys(c)
        THEN Ret("cache_get", text, None, <<>>)
        ELSE IF t - ValueOf(c, key).timestamp > ttl
             THEN Ret("cache_get", text, None, <<"expired">>)
             ELSE Ret("cache_get", text, "vector", ValueOf(c, key).embedding)

\* get that takes an entry as expired as soon as its age reaches ttl_seconds
cache_get_expires_early(text) ==
    LET key == _hash_text(text)
        gone == key \in Keys(cache) /\ now - ValueOf(cache, key).timestamp >= ttl_seconds
    IN  /\ ret' = IF gone THEN Ret("cache_get", text, None, <<"expired">>)
                  ELSE cache_get_ret(cache, now, ttl_seconds, text)
        /\ cache' = IF gone THEN DictDel(cache, key) ELSE cache
        /\ UNCHANGED <<storeVars, rows, max_size, ttl_seconds, now, threads>>

\* EmbeddingCache.get: an expired entry is deleted by the read
cache_get(text) ==
    LET key == _hash_text(text)
    IN  /\ ret' = cache_get_ret(cache, now, ttl_seconds, text)
        /\ cache' = IF key \in Keys(cache) /\ now - ValueOf(cache, key).timestamp > ttl_seconds
                    THEN DictDel(cache, key)
                    ELSE cache
        /\ UNCHANGED <<storeVars, rows, max_size, ttl_seconds, now, threads>>

\* put that stores the vector without its last component
put_truncated(text, embedding) ==
    LET key == _hash_text(text)
    IN  /\ cache' = DictSet(cache, key,
                            [embedding |-> SubSeq(embedding, 1, Len(embedding) - 1),
                             timestamp |-> now])
        /\ ret' = Ret("put", text, None, <<>>)
        /\ UNCHANGED <<storeVars, rows, max_size, ttl_seconds, now, threads>>

\* EmbeddingCache.put: min() of an empty dict raises ValueError before
\* anything is stored
put(text, embedding) ==
    LET key == _hash_text(text)
    IN  /\ IF cache_full(cache, max_size)
           THEN IF cache = <<>>
                THEN /\ cache' = cache
                     /\ ret' = Ret("put", text, "ValueError", <<>>)
                ELSE /\ cache' = DictSet(DictDel(cache, oldest_key(cache)), key,
                                         [embedding |-> embedding, timestamp |-> now])
                     /\ ret' = Ret("put", text, None, <<oldest_key(cache)>>)
           ELSE /\ cache' = DictSet(cache, key, [embedding |-> embedding, timestamp |-> now])
                /\ ret' = Ret("put", text, None, <<>>)
        /\ UNCHANGED <<storeVars, rows, max_size, ttl_seconds, now, threads>>

\* check-then-insert as a caller on its own thread runs it: get(text), then,
\* on a miss, put(text, embedding) statement by statement; EmbeddingCache holds
\* no lock, so the other caller runs between any two statements.
\* cached = cache.get(text); if cached is not None: reuse it
caller_get(t, text, embedding) ==
    LET key == _hash_text(text)
        r == cache_get_ret(cache, now, ttl_seconds, text)
    IN  /\ t \notin DOMAIN threads
        /\ ret' = r
        /\ cache' = IF key \in Keys(cache) /\ now - ValueOf(cache, key).timestamp > ttl_seconds
                    THEN DictDel(cache, key)
                    ELSE cache
        /\ threads' = MapSet(threads, t,
                             [pc |-> IF r.val = None THEN "put" ELSE "done",
                              text |-> text, embedding |-> embedding,
                              oldest_key |-> None, result |-> r.val])
        /\ UNCHANGED <<storeVars, rows, max_size, ttl_seconds, now>>

\* if len(self.cache) >= self.max_size:
\*     oldest_key = min(self.cache.items(), key=lambda x: x[1][1])[0]
put_oldest_key(t) ==
    /\ t \in DOMAIN threads
    /\ threads[t].pc = "put"
    /\ IF cache_full(cache, max_size)
       THEN IF cache = <<>>
            THEN /\ threads' = [threads EXCEPT ![t].pc = "done", ![t].result = "ValueError"]
                 /\ ret' = Ret("put", threads[t].text, "ValueError", <<>>)
            ELSE /\ threads' = [threads EXCEPT ![t].pc = "del",
                                               ![t].oldest_key = oldest_key(cache)]
                 /\ ret' = ret
       ELSE /\ threads' = [threads EXCEPT ![t].pc = "store"]
            /\ ret' = ret
    /\ UNCHANGED <<storeVars, rows, cacheVars>>

\* del self.cache[oldest_key]
put_del(t) ==
    /\ t \in DOMAIN threads
    /\ threads[t].pc = "del"
    /\ IF threads[t].oldest_key \in Keys(cache)
       THEN /\ cache' = DictDel(cache, threads[t].oldest_key)
            /\ threads' = [threads EXCEPT ![t].pc = "store"]
            /\ ret' = ret
       ELSE /\ cache' = cache
            /\ threads' = [threads EXCEPT ![t].pc = "done", ![t].result = "KeyError"]
            /\ ret' = Ret("put", threads[t].text, "KeyError", <<>>)
    /\ UNCHANGED <<storeVars, rows, max_size, ttl_seconds, now>>

\* self.cache[key] = (embedding, time.time())
put_store(t) ==
    /\ t \in DOMAIN threads
    /\ threads[t].pc = "store"
    /\ cache' = DictSet(cache, _hash_text(threads[t].text),
                        [embedding |-> threads[t].embedding, timestamp |-> now])
    /\ threads' = [threads EXCEPT ![t].pc = "done", ![t].result = None]
    /\ ret' = Ret("put", threads[t].text, None, <<>>)
    /\ UNCHANGED <<storeVars, rows, max_size, ttl_seconds, now>>

clear ==
    /\ cache' = <<>>
    /\ ret' = Ret("clear", None, None, <<>>)
    /\ UNCHANGED <<storeVars, rows, max_size, ttl_seconds, now, threads>>

\* size that drops the expired entries before it counts
size_purges_expired ==
    LET live == SelectSeq(cache, LAMBDA x : ~(now - x.value.timestamp > ttl_seconds))
    IN  /\ cache' = live
        /\ ret' = Ret("size", None, "int", <<Len(live)>>)
        /\ UNCHANGED <<storeVars, rows, max_size, ttl_seconds, now, threads>>

size ==
    /\ ret' = Ret("size", None, "int", <<Len(cache)>>)
    /\ UNCHANGED <<storeVars, rows, cacheVars, threads>>

stats ==
    /\ ret' = Ret("stats", None, "dict",
                  [size |-> Len(cache), max_size |-> max_size, ttl_seconds |-> ttl_seconds])
    /\ UNCHANGED <<storeVars, rows, cacheVars, threads>>

\* the clock of time.time() moves on between calls
MaxTime == 2

tick ==
    /\ now < MaxTime
    /\ now' = now + 1
    /\ ret' = Ret("tick", None, None, <<>>)
    /\ UNCHANGED <<storeVars, rows, cache, max_size, ttl_seconds, threads>>

(***************************************************************************)
(* Text and numbers                                                        *)
(***************************************************************************)

\* str.lower(), character by character
LowerChar(c) ==
    CASE c = "P" -> "p"
      [] c = "A" -> "a"
      [] c = "G" -> "g"
      [] c = "I" -> "i"
      [] c = "Y" -> "y"
      [] OTHER -> c

Lower(text) == [i \in DOMAIN text |-> LowerChar(text[i])]

\* str.split(): the maximal runs of characters that are not whitespace, as a set
Words(text) ==
    LET n == Len(text)
        starts(i) == text[i] # " " /\ (i = 1 \/ text[i - 1] = " ")
        ends(j) == text[j] # " " /\ (j = n \/ text[j + 1] = " ")
    IN  {SubSeq(text, i, j) : <<i, j>> \in
            {w \in (1..n) \X (1..n) :
                /\ w[1] <= w[2]
                /\ starts(w[1])
                /\ ends(w[2])
                /\ \A k \in w[1]..w[2] : text[k] # " "}}

\* `sub in text` on strings; the empty string is in every string
Contains(text, sub) ==
    \E i \in 1..(Len(text) + 1) :
        /\ i + Len(sub) - 1 <= Len(text)
        /\ SubSeq(text, i, i + Len(sub) - 1) = sub

Abs(x) == IF x < 0 THEN -x ELSE x

RECURSIVE Gcd(_, _)
Gcd(a, b) == IF b = 0 THEN a ELSE Gcd(b, a % b)

\* a float: not-a-number, or the fraction n/d in lowest terms with d > 0
NaN == [nan |-> TRUE, n |-> 0, d |-> 1]

Rat(n, d) ==
    LET g == Gcd(Abs(n), d)
    IN  [nan |-> FALSE, n |-> n \div g, d |-> d \div g]

RMul(x, y) == IF x.nan \/ y.nan THEN NaN ELSE Rat(x.n * y.n, x.d * y.d)

RAdd(x, y) == IF x.nan \/ y.nan THEN NaN ELSE Rat(x.n * y.d + y.n * x.d, x.d * y.d)

\* x >= y on floats: False when either is not-a-number
RGe(x, y) == ~x.nan /\ ~y.nan /\ x.n * y.d >= y.n * x.d

\* np.dot
Dot(u, v) == u[1] * v[1] + u[2] * v[2]

\* np.linalg.norm, on the vectors whose norm is a whole number
Norm(v) == CHOOSE r \in 0..(Abs(v[1]) + Abs(v[2])) : r * r = Dot(v, v)

(***************************************************************************)
(* RelevanceEngine (backend/relevance.py)                                  *)
(***************************************************************************)

\* compute_similarity: the division by a zero norm is 0.0/0.0, which numpy
\* evaluates to nan with a warning
compute_similarity(embedding1, embedding2) ==
    IF Norm(embedding1) * Norm(embedding2) = 0
    THEN NaN
    ELSE Rat(Dot(embedding1, embedding2), Norm(embedding1) * Norm(embedding2))

\* x > y on floats
RGt(x, y) == ~x.nan /\ ~y.nan /\ x.n * y.d > y.n * x.d

\* ranked.sort(key=lambda x: x.relevance_score, reverse=True) on scores that
\* are numbers: an element goes behind the elements with a greater score and
\* behind the elements of equal score that stood before it
sort_descending(ranked) ==
    LET place(i) ==
            1 + Cardinality({j \in DOMAIN ranked :
                    \/ RGt(ranked[j].relevance_score, ranked[i].relevance_score)
                    \/ /\ j < i
                       /\ ranked[j].relevance_score = ranked[i].relevance_score})
    IN  [p \in DOMAIN ranked |-> ranked[CHOOSE i \in DOMAIN ranked : place(i) = p]]

Orderings(ranked) ==
    LET n == Len(ranked)
    IN  {[i \in 1..n |-> ranked[f[i]]] :
            f \in {g \in [1..n -> 1..n] : \A i, j \in 1..n : g[i] = g[j] => i = j}}

\* the lists list.sort can leave: with a nan among the keys every comparison
\* with it is False, the order list.sort then leaves is not defined by the
\* language, and any order is taken as possible
sort_outcomes(ranked) ==
    IF \E i \in DOMAIN ranked : ranked[i].relevance_score.nan
    THEN Orderings(ranked)
    ELSE {sort_descending(ranked)}

\* ranked[:max_results]
Slice(ranked, max_results) ==
    SubSeq(ranked, 1, IF max_results < Len(ranked) THEN max_results ELSE Len(ranked))

\* RankedContextUnit(context_unit, relevance_score) for one (context, embedding)
adjusted(task_embedding, pair) ==
    [context_unit |-> pair.unit,
     relevance_score |-> RMul(compute_similarity(task_embedding, pair.embedding),
                              Rat(pair.unit.confidence, 10))]

\* the lists rank_contexts can return for the list the store returned,
\* or the error it raises: np.dot with an embedding that is None
rank_contexts_outcomes(task_embedding, contexts_with_embeddings, max_results) ==
    IF contexts_with_embeddings = <<>>
    THEN {[val |-> "list", out |-> <<>>]}
    ELSE IF \E i \in DOMAIN contexts_with_embeddings :
                contexts_with_embeddings[i].embedding = NoEmb
         THEN {[val |-> "TypeError", out |-> <<>>]}
         ELSE LET ranked == [i \in DOMAIN contexts_with_embeddings |->
                                adjusted(task_embedding, contexts_with_embeddings[i])]
              IN  {[val |-> "list", out |-> Slice(r, max_results)] : r \in sort_outcomes(ranked)}

\* keyword_weight = 0.3
keyword_weight == Rat(3, 10)

\* the blend with a whole point for every matching tag
blended_tag_point(task, ranked_context, weight) ==
    LET context == ranked_context.context_unit
        tag_matches ==
            Cardinality({i \in DOMAIN context.tags :
                            Contains(Lower(task), Lower(context.tags[i]))})
    IN  [context_unit |-> context,
         relevance_score |-> RAdd(RMul(ranked_context.relevance_score,
                                       RAdd(Rat(1, 1), RMul(Rat(-1, 1), weight))),
                                  RMul(Rat(tag_matches, 1), weight))]

\* the score rank_with_keywords gives a unit ranked with relevance_score
blended(task, ranked_context, weight) ==
    LET context == ranked_context.context_unit
        task_lower == Lower(task)
        task_words == Words(task_lower)
        content_words == Words(Lower(context.content))
        keyword_overlap ==
            Rat(Cardinality(task_words \cap content_words),
                IF Cardinality(task_words) > 1 THEN Cardinality(task_words) ELSE 1)
        tag_matches ==
            Cardinality({i \in DOMAIN context.tags :
                            Contains(task_lower, Lower(context.tags[i]))})
        tag_score == RMul(Rat(tag_matches, 1), Rat(2, 10))
        semantic_score == RMul(ranked_context.relevance_score,
                               RAdd(Rat(1, 1), RMul(Rat(-1, 1), weight)))
        keyword_score == RMul(RAdd(keyword_overlap, tag_score), weight)
    IN  [context_unit |-> context,
         relevance_score |-> RAdd(semantic_score, keyword_score)]

\* the lists rank_with_keywords can return, or the error it raises
rank_with_keywords_outcomes(task, task_embedding, contexts_with_embeddings, max_results, weight) ==
    UNION {IF first.val # "list"
           THEN {first}
           ELSE LET ranked == [i \in DOMAIN first.out |-> blended(task, first.out[i], weight)]
                IN  {[val |-> "list", out |-> Slice(r, max_results)] :
                        r \in sort_outcomes(ranked)} :
           first \in rank_contexts_outcomes(task_embedding, contexts_with_embeddings,
                                            max_results * 2)}

\* RelevanceEngine.encode, the sentence-transformers model: a fixed vector
\* for each task text
TaskPy == <<"P", "y", " ", "a", "p", "i">>
TaskGo == <<"g", "o">>
TaskBlank == <<" ">>

encode(text) ==
    CASE text = TaskPy -> <<1, 0>>
      [] text = TaskGo -> <<-1, 0>>
      [] text = TaskBlank -> <<0, 0>>

\* rank_contexts that stamps last_used on the units it returns
rank_contexts_marks_used(task, max_results) ==
    /\ \E r \in rank_contexts_outcomes(encode(task),
                    list_with_embeddings_of(contexts, embeddings), max_results) :
          /\ ret' = Ret("rank_contexts", [task |-> task, max_results |-> max_results],
                        r.val, r.out)
          /\ contexts' = [i \in DOMAIN contexts |->
                            IF \E j \in DOMAIN r.out : r.out[j].context_unit = contexts[i].value
                            THEN [contexts[i] EXCEPT !.value.last_used = "now"]
                            ELSE contexts[i]]
    /\ UNCHANGED <<embeddings, rows, cacheVars, threads>>

rank_contexts(task, max_results) ==
    /\ \E r \in rank_contexts_outcomes(encode(task),
                    list_with_embeddings_of(contexts, embeddings), max_results) :
          ret' = Ret("rank_contexts", [task |-> task, max_results |-> max_results],
                     r.val, r.out)
    /\ UNCHANGED <<storeVars, rows, cacheVars, threads>>

rank_with_keywords(task, max_results) ==
    /\ \E r \in rank_with_keywords_outcomes(task, encode(task),
                    list_with_embeddings_of(contexts, embeddings), max_results,
                    keyword_weight) :
          ret' = Ret("rank_with_keywords", [task |-> task, max_results |-> max_results],
                     r.val, r.out)
    /\ UNCHANGED <<storeVars, rows, cacheVars, threads>>

(***************************************************************************)
(* DatabaseContextStore (backend/db_storage.py)                            *)
(***************************************************************************)

\* the columns of context_units that may be NULL
NullableColumns == {"last_used", "superseded_by", "embedding"}

\* ContextUnitDB(...) as add builds it: the unit's fields and the embedding
ContextUnitDB(context, embedding) ==
    [f \in UnitFields \cup {"embedding"} |->
        IF f = "embedding" THEN embedding ELSE context[f]]

_to_context_unit(db_context) == [f \in UnitFields |-> db_context[f]]

\* the value a column takes when it is set to None
NullOf(f) == IF f = "embedding" THEN NoEmb ELSE None

\* the loop of DatabaseContextStore.update: setattr for every key the row has
\* as an attribute, a None value included
db_update_row(db_context, updates) ==
    [f \in DOMAIN db_context |->
        IF f \in updates.set THEN updates.val[f]
        ELSE IF f \in updates.nulls THEN NullOf(f)
        ELSE db_context[f]]

\* a primary key that is taken makes the commit fail; the session is rolled
\* back and the error is raised to the caller
db_add(context, embedding) ==
    /\ IF context.id \in Keys(rows)
       THEN /\ rows' = rows
            /\ ret' = Ret("add", context.id, "IntegrityError", <<>>)
       ELSE /\ rows' = DictSet(rows, context.id, ContextUnitDB(context, embedding))
            /\ ret' = Ret("add", context.id, None, <<>>)
    /\ UNCHANGED <<storeVars, cacheVars, threads>>

db_get(context_id) ==
    /\ ret' = IF context_id \in Keys(rows)
              THEN Ret("get", context_id, "unit", <<_to_context_unit(ValueOf(rows, context_id))>>)
              ELSE Ret("get", context_id, None, <<>>)
    /\ UNCHANGED <<storeVars, rows, cacheVars, threads>>

db_list_all_of(r, include_superseded) ==
    LET sel == IF include_superseded THEN r
               ELSE SelectSeq(r, LAMBDA x : x.value.status = ACTIVE)
    IN  [i \in DOMAIN sel |-> _to_context_unit(sel[i].value)]

db_list_all(include_superseded) ==
    /\ ret' = Ret("list_all", IF include_superseded THEN True ELSE False, "list",
                  db_list_all_of(rows, include_superseded))
    /\ UNCHANGED <<storeVars, rows, cacheVars, threads>>

\* a None in a column that is not nullable fails the conversion to ContextUnit
\* and the commit: the session is rolled back and the error is raised
db_update(context_id, updates) ==
    /\ IF context_id \notin Keys(rows)
       THEN /\ rows' = rows
            /\ ret' = Ret("update", context_id, None, <<>>)
       ELSE IF (updates.nulls \cap UnitFields) \ NullableColumns # {}
            THEN /\ rows' = rows
                 /\ ret' = Ret("update", context_id, "ValidationError", <<>>)
            ELSE LET db_context == db_update_row(ValueOf(rows, context_id), updates)
                 IN  /\ rows' = DictSet(rows, context_id, db_context)
                     /\ ret' = Ret("update", context_id, "unit",
                                   <<_to_context_unit(db_context)>>)
    /\ UNCHANGED <<storeVars, cacheVars, threads>>

\* db.delete(db_context): the relationship of db_models.py lines 43 to 47 has
\* the session set superseded_by to NULL in the rows that named the deleted row
db_delete(context_id) ==
    /\ IF context_id \notin Keys(rows)
       THEN /\ rows' = rows
            /\ ret' = Ret("delete", context_id, False, <<>>)
       ELSE LET left == DictDel(rows, context_id)
            IN  /\ rows' = [i \in DOMAIN left |->
                              IF left[i].value.superseded_by = context_id
                              THEN [left[i] EXCEPT !.value.superseded_by = None]
                              ELSE left[i]]
                /\ ret' = Ret("delete", context_id, True, <<>>)
    /\ UNCHANGED <<storeVars, cacheVars, threads>>

\* a new_id that is no row violates the foreign key of superseded_by: SQLite,
\* the default engine, does not enforce it, PostgreSQL fails the commit
db_supersede(old_id, new_id) ==
    /\ IF old_id \notin Keys(rows)
       THEN /\ rows' = rows
            /\ ret' = Ret("supersede", old_id, False, <<>>)
       ELSE \/ /\ rows' = DictSet(rows, old_id,
                                  [ValueOf(rows, old_id) EXCEPT
                                      !.status = SUPERSEDED, !.superseded_by = new_id])
               /\ ret' = Ret("supersede", old_id, True, <<new_id>>)
            \/ /\ new_id \notin Keys(rows)
               /\ rows' = rows
               /\ ret' = Ret("supersede", old_id, "IntegrityError", <<new_id>>)
    /\ UNCHANGED <<storeVars, cacheVars, threads>>

db_get_embedding(context_id) ==
    /\ ret' = IF context_id \in Keys(rows) /\ ValueOf(rows, context_id).embedding # NoEmb
              THEN Ret("get_embedding", context_id, "vector",
                       ValueOf(rows, context_id).embedding)
              ELSE Ret("get_embedding", context_id, None, <<>>)
    /\ UNCHANGED <<storeVars, rows, cacheVars, threads>>

\* the method has no return statement: it returns None, found or not
db_update_embedding(context_id, embedding) ==
    /\ rows' = IF context_id \in Keys(rows)
               THEN DictSet(rows, context_id,
                            [ValueOf(rows, context_id) EXCEPT !.embedding = embedding])
               ELSE rows
    /\ ret' = Ret("update_embedding", context_id, None, <<>>)
    /\ UNCHANGED <<storeVars, cacheVars, threads>>

\* every row of the requested status, with its embedding or with None
db_list_with_embeddings_of(r, include_superseded) ==
    LET sel == IF include_superseded THEN r
               ELSE SelectSeq(r, LAMBDA x : x.value.status = ACTIVE)
    IN  [i \in DOMAIN sel |->
            [unit |-> _to_context_unit(sel[i].value), embedding |-> sel[i].value.embedding]]

db_list_with_embeddings(include_superseded) ==
    /\ ret' = Ret("list_with_embeddings", IF include_superseded THEN True ELSE False,
                  "list", db_list_with_embeddings_of(rows, include_superseded))
    /\ UNCHANGED <<storeVars, rows, cacheVars, threads>>

\* rank_contexts(task, db_context_store, max_results)
db_rank_contexts(task, max_results) ==
    /\ \E r \in rank_contexts_outcomes(encode(task),
                    db_list_with_embeddings_of(rows, FALSE), max_results) :
          ret' = Ret("rank_contexts", [task |-> task, max_results |-> max_results],
                     r.val, r.out)
    /\ UNCHANGED <<storeVars, rows, cacheVars, threads>>

\* rank_with_keywords(task, db_context_store, max_results)
db_rank_with_keywords(task, max_results) ==
    /\ \E r \in rank_with_keywords_outcomes(task, encode(task),
                    db_list_with_embeddings_of(rows, FALSE), max_results,
                    keyword_weight) :
          ret' = Ret("rank_with_keywords", [task |-> task, max_results |-> max_results],
                     r.val, r.out)
    /\ UNCHANGED <<storeVars, rows, cacheVars, threads>>

(***************************************************************************)
(* Inputs                                                                  *)
(***************************************************************************)

\* texts are sequences of characters
TextOld == <<"o", "l", "d">>
TextNew == <<"n", "e", "w">>

\* embeddings are vectors of dimension 2
E1 == <<1, 0>>
E2 == <<0, 1>>

\* the units a caller of the store constructs
StoreUnits == {ContextUnit(i, "fact", TextOld, 10, <<>>) : i \in Ids}

StoreEmbeddings == {NoEmb, E1, E2}

\* the updates dicts a caller of the store passes
StoreUpdates ==
    {Updates({"status"}, {}, [status |-> s]) : s \in ContextStatus}
    \cup {Updates({"superseded_by"}, {}, [superseded_by |-> "a"]),
          Updates({"id"}, {}, [id |-> "b"]),
          Updates({"type"}, {"content"}, [type |-> "goal"]),
          Updates({"nosuch"}, {"status"}, [nosuch |-> 1]),
          Updates({}, {}, <<>>)}

Init ==
    /\ contexts = <<>>
    /\ embeddings = <<>>
    /\ rows = <<>>
    /\ cache = <<>>
    /\ max_size = 0
    /\ ttl_seconds = 0
    /\ now = 0
    /\ threads = <<>>
    /\ ret = Ret("init", None, None, <<>>)

Next ==
    \/ \E u \in StoreUnits, e \in StoreEmbeddings : add(u, e)
    \/ \E k \in Ids : get(k)
    \/ \E b \in BOOLEAN : list_all(b)
    \/ \E k \in Ids, u \in StoreUpdates : update(k, u)
    \/ \E k \in Ids : delete(k)
    \/ \E k \in Ids : get_embedding(k)
    \/ \E k \in Ids, e \in StoreEmbeddings \ {NoEmb} : update_embedding(k, e)
    \/ list_with_embeddings
    \/ \E k \in Ids, u \in StoreUnits : supersede(k, u)

Spec == Init /\ [][Next]_vars

\* the store with a supersede running on a thread of its own: the other
\* writers are serialized by the callers, the readers run at any time
Writer == "writer"

NextThreads ==
    \/ threads = <<>> /\ \E u \in StoreUnits, e \in StoreEmbeddings : add(u, e)
    \/ \E k \in Ids, u \in StoreUnits : supersede_begin(Writer, k, u)
    \/ supersede_status(Writer)
    \/ supersede_superseded_by(Writer)
    \/ supersede_store(Writer)
    \/ \E k \in Ids : get(k)
    \/ \E b \in BOOLEAN : list_all(b)
    \/ list_with_embeddings

SpecThreads == Init /\ [][NextThreads]_vars

\* the units, embeddings and tasks the relevance engine is run on
RankUnits ==
    {ContextUnit("a", "preference", <<"u", "s", "e", " ", "P", "y">>, 7,
                 <<<<"P", "y">>, <<"A", "P", "I">>>>),
     ContextUnit("b", "fact", <<"g", "o">>, 10, <<>>),
     ContextUnit("c", "goal", <<"p", "y", " ", "a", "p", "i">>, 10,
                 <<<<"g", "o">>, <<"p", "y">>>>)}

RankEmbeddings == {NoEmb, <<1, 0>>, <<3, 4>>, <<0, 0>>}

Tasks == {TaskPy, TaskGo, TaskBlank}

\* max_context_units of a request
MaxResults == 2

NextRank ==
    \/ \E u \in RankUnits, e \in RankEmbeddings : add(u, e)
    \/ \E k \in RankIds : delete(k)
    \/ \E k \in {"a", "d"}, u \in RankUnits : supersede(k, u)
    \/ \E t \in Tasks, m \in 1..MaxResults : rank_contexts(t, m)
    \/ \E t \in Tasks, m \in 1..MaxResults : rank_with_keywords(t, m)

SpecRank == Init /\ [][NextRank]_vars

\* the calls made on the database store
DbUnits == {u \in RankUnits : u.id \in Ids}

DbEmbeddings == {NoEmb, <<1, 0>>, <<0, 0>>}

DbUpdates ==
    {Updates({"status"}, {}, [status |-> SUPERSEDED]),
     Updates({"content", "confidence"}, {}, [content |-> TextNew, confidence |-> 10]),
     Updates({}, {"superseded_by"}, <<>>),
     Updates({}, {"content"}, <<>>)}

NextDb ==
    \/ \E u \in DbUnits, e \in DbEmbeddings : db_add(u, e)
    \/ \E k \in Ids : db_get(k)
    \/ \E b \in BOOLEAN : db_list_all(b)
    \/ \E k \in Ids, u \in DbUpdates : db_update(k, u)
    \/ \E k \in Ids : db_delete(k)
    \/ \E k \in Ids, n \in Ids : db_supersede(k, n)
    \/ \E k \in Ids : db_get_embedding(k)
    \/ \E k \in Ids, e \in DbEmbeddings \ {NoEmb} : db_update_embedding(k, e)
    \/ \E b \in BOOLEAN : db_list_with_embeddings(b)
    \/ \E m \in 1..MaxResults : db_rank_contexts(TaskPy, m)
    \/ \E m \in 1..MaxResults : db_rank_with_keywords(TaskPy, m)

SpecDb == Init /\ [][NextDb]_vars

\* the same calls made on an in-memory store and on a database store
BothEmbeddings == {NoEmb, <<1, 0>>}

NextBoth ==
    \/ \E u \in DbUnits, e \in BothEmbeddings : add(u, e)
    \/ \E u \in DbUnits, e \in BothEmbeddings : db_add(u, e)
    \/ \E k \in Ids : delete(k)
    \/ \E k \in Ids : db_delete(k)
    \/ \E k \in Ids : update_embedding(k, <<1, 0>>)
    \/ \E k \in Ids : db_update_embedding(k, <<1, 0>>)
    \/ list_all(FALSE)
    \/ db_list_all(FALSE)
    \/ list_with_embeddings
    \/ db_list_with_embeddings(FALSE)

SpecBoth == Init /\ [][NextBoth]_vars

\* ContextUnit(type=..., content=..., confidence=...) on any input
MaxConfidenceInput == 11

UnitContents == {<<>>, <<" ">>, TextOld}

construct(type, content, confidence) ==
    /\ ret' = IF validates(type, content, confidence)
              THEN Ret("ContextUnit",
                       [type |-> type, content |-> content, confidence |-> confidence],
                       "unit", <<ContextUnit("a", type, content, confidence, <<>>)>>)
              ELSE Ret("ContextUnit",
                       [type |-> type, content |-> content, confidence |-> confidence],
                       "ValidationError", <<>>)
    /\ UNCHANGED <<storeVars, rows, cacheVars, threads>>

NextUnit ==
    \E t \in ContextType, c \in UnitContents, x \in -1..MaxConfidenceInput :
        construct(t, c, x)

SpecUnit == Init /\ [][NextUnit]_vars

\* EmbeddingCache(max_size, ttl_seconds)
MaxMaxSize == 2
MaxTtl == 1

InitCache ==
    /\ contexts = <<>>
    /\ embeddings = <<>>
    /\ rows = <<>>
    /\ cache = <<>>
    /\ max_size \in 0..MaxMaxSize
    /\ ttl_seconds \in 0..MaxTtl
    /\ now = 0
    /\ threads = <<>>
    /\ ret = Ret("init", None, None, <<>>)

NextCache ==
    \/ \E t \in CacheTexts : cache_get(t)
    \/ \E t \in CacheTexts, e \in {E1, E2} : put(t, e)
    \/ clear
    \/ size
    \/ stats
    \/ tick

SpecCache == InitCache /\ [][NextCache]_vars

\* two callers that check-then-insert the same text, on a cache other texts
\* were put in before
Callers == {"t1", "t2"}

RaceText == <<"t", "1">>

NextRace ==
    \/ threads = <<>> /\ \E x \in CacheTexts \ {RaceText} : put(x, E1)
    \/ tick
    \/ \E t \in Callers, e \in {E1, E2} : caller_get(t, RaceText, e)
    \/ \E t \in Callers : put_oldest_key(t)
    \/ \E t \in Callers : put_del(t)
    \/ \E t \in Callers : put_store(t)

SpecRace == InitCache /\ [][NextRace]_vars

(***************************************************************************)
(* The in-memory store: claims                                             *)
(***************************************************************************)

Units(d) == {d[i].value : i \in DOMAIN d}

\* C1: after any sequence of store operations every stored unit has status
\* SUPERSEDED if and only if its superseded_by is not None.
C1_SupersededIffSupersededBy ==
    \A c \in Units(contexts) : (c.status = SUPERSEDED) <=> (c.superseded_by # None)

\* every SUPERSEDED unit of the dict d names a unit of d in superseded_by
SupersededByIsStored(d) ==
    \A c \in Units(d) : c.status = SUPERSEDED => c.superseded_by \in Keys(d)

\* C4: every stored unit with status SUPERSEDED has a superseded_by that is
\* the id of a unit currently in the store, also after a delete of the
\* superseding unit: a delete in a store where this holds leaves it true.
C4_SupersededByIsStored ==
    [][(ret'.op = "delete" /\ SupersededByIsStored(contexts))
          => SupersededByIsStored(contexts')]_vars

\* C5: an embedding is held only under a key that holds a unit, and after
\* delete(id) both get(id) and get_embedding(id) return None.
C5_NoOrphanedEmbedding ==
    /\ DOMAIN embeddings \subseteq Keys(contexts)
    /\ ret.op = "delete" =>
           /\ get_ret(contexts, ret.key).val = None
           /\ get_embedding_ret(embeddings, ret.key).val = None

\* C5 witness: a delete removed a unit while another unit keeps its embedding
C5_Witness ==
    /\ ret.op = "delete"
    /\ ret.val = True
    /\ embeddings # <<>>

\* C9: update never changes a unit's id, type or created_at, so that every
\* stored unit keeps an id equal to the key it is stored under.
C9_UpdateKeepsIdentity ==
    [][ret'.op = "update" =>
          /\ \A k \in Keys(contexts) :
                /\ ValueOf(contexts', k).id = ValueOf(contexts, k).id
                /\ ValueOf(contexts', k).type = ValueOf(contexts, k).type
                /\ ValueOf(contexts', k).created_at = ValueOf(contexts, k).created_at
          /\ \A i \in DOMAIN contexts' : contexts'[i].value.id = contexts'[i].key]_vars

\* C10: supersede(oldId, new) on an existing oldId returns True; afterwards
\* the old unit is SUPERSEDED with superseded_by = new.id, the new unit is
\* stored and ACTIVE, list_all(False) excludes the old unit and
\* list_all(True) includes both.
C10_SupersedeScenario ==
    [][(ret'.op = "supersede" /\ ret'.key \in Keys(contexts)) =>
          /\ ret'.val = True
          /\ LET old_id == ret'.key
                 new_id == ret'.out[1]
                 old == ValueOf(contexts', old_id)
             IN  /\ old.status = SUPERSEDED
                 /\ old.superseded_by = new_id
                 /\ new_id \in Keys(contexts')
                 /\ ValueOf(contexts', new_id).status = ACTIVE
                 /\ old \notin Range(list_all_of(contexts', FALSE))
                 /\ {old, ValueOf(contexts', new_id)}
                        \subseteq Range(list_all_of(contexts', TRUE))
                 /\ old # ValueOf(contexts', new_id)]_vars

\* how often the value x stands in the sequence s
Count(s, x) == Cardinality({i \in DOMAIN s : s[i] = x})

\* C11: list_all(include_superseded=False) returns exactly the stored units
\* whose status is ACTIVE and never a SUPERSEDED one, list_all(True) returns
\* every stored unit, and list_all on a store without units returns [].
C11_ListAll ==
    ret.op = "list_all" =>
        /\ ret.val = "list"
        /\ ret.key = False =>
              /\ \A i \in DOMAIN ret.out : ret.out[i].status = ACTIVE
              /\ \A c \in Units(contexts) : c.status = ACTIVE =>
                    Count(ret.out, c) = Count([i \in DOMAIN contexts |-> contexts[i].value], c)
              /\ \A i \in DOMAIN ret.out : ret.out[i] \in Units(contexts)
        /\ ret.key = True => ret.out = [i \in DOMAIN contexts |-> contexts[i].value]
        /\ contexts = <<>> => ret.out = <<>>

\* C11 witness: list_all(False) returned the ACTIVE unit of a store that also
\* holds a SUPERSEDED unit
C11_Witness ==
    /\ ret.op = "list_all"
    /\ ret.key = False
    /\ Len(ret.out) = 1
    /\ \E c \in Units(contexts) : c.status = SUPERSEDED

\* C17: the transition to SUPERSEDED is permanent and made only by
\* supersede: an update or a supersede leaves a SUPERSEDED unit SUPERSEDED
\* with the superseded_by it had, and only a supersede turns an ACTIVE unit
\* into a SUPERSEDED one.
C17_SupersededIsPermanent ==
    [][ret'.op \in {"update", "supersede"} =>
          \A k \in Keys(contexts) :
              /\ k \in Keys(contexts')
              /\ ValueOf(contexts, k).status = SUPERSEDED =>
                    /\ ValueOf(contexts', k).status = SUPERSEDED
                    /\ ValueOf(contexts', k).superseded_by = ValueOf(contexts, k).superseded_by
              /\ (/\ ValueOf(contexts, k).status = ACTIVE
                  /\ ValueOf(contexts', k).status = SUPERSEDED) => ret'.op = "supersede"]_vars

(***************************************************************************)
(* Ranking: claims                                                         *)
(***************************************************************************)

\* result[i].relevance_score >= result[i+1].relevance_score for every valid i
Descending(result) ==
    \A i \in 1..(Len(result) - 1) :
        RGe(result[i].relevance_score, result[i + 1].relevance_score)

\* results with equal scores stand in the order their units have in before
TiesKeepOrder(result, before) ==
    \A i, j \in DOMAIN result :
        (/\ i < j
         /\ ~result[i].relevance_score.nan
         /\ result[i].relevance_score = result[j].relevance_score)
        => \E p, q \in DOMAIN before :
              /\ p < q
              /\ before[p] = result[i].context_unit
              /\ before[q] = result[j].context_unit

\* C6: the list rank_contexts and rank_with_keywords return is in descending
\* relevance_score order, and units with equal scores keep the order they
\* had before the sort: the store's candidate order in rank_contexts, the
\* order of the stage-1 list in rank_with_keywords.
C6_DescendingStable ==
    LET candidates == list_with_embeddings_of(contexts, embeddings)
    IN  /\ (ret.op = "rank_contexts" /\ ret.val = "list") =>
               /\ Descending(ret.out)
               /\ TiesKeepOrder(ret.out, [i \in DOMAIN candidates |-> candidates[i].unit])
        /\ (ret.op = "rank_with_keywords" /\ ret.val = "list") =>
               /\ Descending(ret.out)
               /\ \E first \in rank_contexts_outcomes(encode(ret.key.task), candidates,
                                                      ret.key.max_results * 2) :
                     /\ first.val = "list"
                     /\ TiesKeepOrder(ret.out,
                            [i \in DOMAIN first.out |-> first.out[i].context_unit])

\* x == y on floats: nan is equal to nothing, itself included
REq(x, y) == ~x.nan /\ ~y.nan /\ x = y

\* the list again holds the units of result in the same order with equal scores
SameRanking(result, again) ==
    /\ Len(again) = Len(result)
    /\ \A i \in DOMAIN result :
          /\ again[i].context_unit = result[i].context_unit
          /\ REq(again[i].relevance_score, result[i].relevance_score)

ActiveWithEmbedding(r) ==
    {_to_context_unit(r[i].value) :
        i \in {j \in DOMAIN r : r[j].value.status = ACTIVE /\ r[j].value.embedding # NoEmb}}

\* C7: with N the number of ACTIVE units that have an embedding, rank_contexts
\* and rank_with_keywords raise no error and return min(max_results, N)
\* entries, each a distinct unit that is ACTIVE and has an embedding; for
\* N = 0 that is the empty list.
C7_RankReturnsActiveWithEmbedding ==
    ret.op \in {"rank_contexts", "rank_with_keywords"} =>
        LET N == Cardinality(ActiveWithEmbedding(rows))
            max_results == ret.key.max_results
        IN  /\ ret.val = "list"
            /\ Len(ret.out) = IF max_results < N THEN max_results ELSE N
            /\ \A i \in DOMAIN ret.out :
                  ret.out[i].context_unit \in ActiveWithEmbedding(rows)
            /\ \A i, j \in DOMAIN ret.out :
                  ret.out[i].context_unit.id = ret.out[j].context_unit.id => i = j

\* C8: get, update, delete, supersede and update_embedding called with an id
\* that is not in the store return None (get, update) or False (delete,
\* supersede, update_embedding), raise no error and leave the store as it is.
C8_UnknownIdIsAbsence ==
    [][(/\ ret'.op \in {"get", "update", "delete", "supersede", "update_embedding"}
        /\ ret'.key \notin Keys(rows))
       => /\ rows' = rows
          /\ ret'.val = IF ret'.op \in {"get", "update"} THEN None ELSE False]_vars

\* C12: list_with_embeddings returns exactly the pairs (unit, embedding) of
\* the stored units that are ACTIVE and have an embedding: never a
\* SUPERSEDED unit and never a pair whose embedding is None.
C12_ListWithEmbeddings ==
    (ret.op = "list_with_embeddings" /\ ret.key = False) =>
        /\ ret.val = "list"
        /\ \A i \in DOMAIN ret.out :
              /\ ret.out[i].unit.status = ACTIVE
              /\ ret.out[i].embedding # NoEmb
        /\ {ret.out[i].unit : i \in DOMAIN ret.out} = ActiveWithEmbedding(rows)
        /\ Len(ret.out) = Cardinality(ActiveWithEmbedding(rows))
        /\ \A i \in DOMAIN ret.out : \E j \in DOMAIN rows :
              /\ _to_context_unit(rows[j].value) = ret.out[i].unit
              /\ rows[j].value.embedding = ret.out[i].embedding

\* the id that stands n superseded_by links after the id k in the dict d,
\* None where the chain ends
RECURSIVE LinkAfter(_, _, _)
LinkAfter(d, k, n) ==
    IF n = 0 THEN k
    ELSE LET prev == LinkAfter(d, k, n - 1)
         IN  IF prev \in Keys(d) THEN ValueOf(d, prev).superseded_by ELSE None

\* no unit of d is reached again by following superseded_by from it
NoSupersessionCycle(d) ==
    \A k \in Keys(d) : \A n \in 1..Len(d) : LinkAfter(d, k, n) # k

\* C16: after any sequence of store operations no unit's superseded_by is its
\* own id, and following superseded_by from a unit never leads back to it.
C16_NoSupersessionCycle ==
    /\ \A i \in DOMAIN rows : rows[i].value.superseded_by # rows[i].value.id
    /\ NoSupersessionCycle(rows)

\* C18: update(id, updates) on an existing id sets exactly the fields that
\* updates gives a value to, leaves every other field of the unit, every
\* other unit and every embedding as they were, and returns the updated unit.
C18_UpdateFrame ==
    [][\A k \in Ids, u \in DbUpdates :
          (ret'.op = "update" /\ ret'.key = k /\ k \in Keys(rows) /\ db_update(k, u)) =>
              LET old == ValueOf(rows, k)
                  new == [f \in DOMAIN old |-> IF f \in u.set THEN u.val[f] ELSE old[f]]
              IN  /\ ret'.val = "unit"
                  /\ ret'.out = <<_to_context_unit(new)>>
                  /\ Keys(rows') = Keys(rows)
                  /\ ValueOf(rows', k) = new
                  /\ \A j \in Keys(rows) \ {k} : ValueOf(rows', j) = ValueOf(rows, j)]_vars

\* the in-memory store (d, e) and the rows r hold the same units, in the same
\* order, with the same embeddings
SameContents(d, e, r) ==
    /\ [i \in DOMAIN d |-> d[i]] = [i \in DOMAIN r |->
            [key |-> r[i].key, value |-> _to_context_unit(r[i].value)]]
    /\ \A i \in DOMAIN r :
          r[i].value.embedding = IF r[i].key \in DOMAIN e THEN e[r[i].key] ELSE NoEmb
    /\ DOMAIN e \subseteq Keys(r)

\* C19: the in-memory store and the database store are observationally
\* equivalent: when the same calls have left both with the same units and
\* embeddings, list_all and list_with_embeddings return equal results on both.
C19_BackendsEquivalent ==
    SameContents(contexts, embeddings, rows) =>
        /\ list_all_of(contexts, FALSE) = db_list_all_of(rows, FALSE)
        /\ list_all_of(contexts, TRUE) = db_list_all_of(rows, TRUE)
        /\ list_with_embeddings_of(contexts, embeddings)
              = db_list_with_embeddings_of(rows, FALSE)

(***************************************************************************)
(* The embedding cache: claims                                             *)
(***************************************************************************)

\* C2: after any sequence of put, get and clear calls the cache holds at most
\* max_size entries, in particular whenever a put has returned.
C2_CacheCapacity ==
    /\ Len(cache) <= max_size
    /\ (ret.op = "size" => ret.out[1] <= max_size)

\* C2 witness: a put returned after evicting from a full cache
C2_Witness ==
    /\ ret.op = "put"
    /\ ret.val = None
    /\ ret.out # <<>>
    /\ Len(cache) = max_size

\* C3: a put on a cache that holds max_size entries removes exactly one entry
\* before it inserts: the one with the oldest insertion timestamp. Every
\* other entry stays as it was, and a lookup of it returns what it returned
\* before; the evicted text is a miss unless it is the text put.
C3_EvictsOldestInsertion ==
    [][(ret'.op = "put" /\ Len(cache) >= max_size /\ cache # <<>>) =>
          LET key == _hash_text(ret'.key)
              victim == ret'.out[1]
          IN  /\ ret'.val = None
              /\ Len(ret'.out) = 1
              /\ victim \in Keys(cache)
              /\ \A k \in Keys(cache) :
                    ValueOf(cache, victim).timestamp <= ValueOf(cache, k).timestamp
              /\ Keys(cache') = (Keys(cache) \ {victim}) \cup {key}
              /\ \A k \in Keys(cache) \ {victim, key} :
                    ValueOf(cache', k) = ValueOf(cache, k)
              /\ ValueOf(cache', key).timestamp = now
              /\ \A t \in CacheTexts :
                    /\ (_hash_text(t) = victim /\ victim # key) =>
                           cache_get_ret(cache', now', ttl_seconds', t).val = None
                    /\ _hash_text(t) \in Keys(cache) \ {victim, key} =>
                           cache_get_ret(cache', now', ttl_seconds', t)
                              = cache_get_ret(cache, now, ttl_seconds, t)]_vars

\* C3 witness: with max_size = 2, a third distinct text was put: the first
\* text put is gone and the other two are held
C3_Witness ==
    /\ max_size = 2
    /\ ret.op = "put"
    /\ ret.out = <<_hash_text(<<"t", "1">>)>>
    /\ ret.key = <<"t", "3">>
    /\ Keys(cache) = {_hash_text(<<"t", "2">>), _hash_text(<<"t", "3">>)}
    /\ cache_get_ret(cache, now, ttl_seconds, <<"t", "1">>).val = None
    /\ cache_get_ret(cache, now, ttl_seconds, <<"t", "2">>).val = "vector"
    /\ cache_get_ret(cache, now, ttl_seconds, <<"t", "3">>).val = "vector"

\* C13: get(text) on an entry whose age now - timestamp exceeds ttl_seconds
\* returns None and removes that entry, every other entry staying; when the
\* age is at most ttl_seconds it returns the cached vector and leaves the
\* cache as it is.
C13_GetChecksTtl ==
    [][(ret'.op = "cache_get" /\ _hash_text(ret'.key) \in Keys(cache)) =>
          LET key == _hash_text(ret'.key)
              entry == ValueOf(cache, key)
          IN  IF now - entry.timestamp > ttl_seconds
              THEN /\ ret'.val = None
                   /\ Keys(cache') = Keys(cache) \ {key}
                   /\ Len(cache') = Len(cache) - 1
                   /\ \A k \in Keys(cache') : ValueOf(cache', k) = ValueOf(cache, k)
              ELSE /\ ret'.val = "vector"
                   /\ ret'.out = entry.embedding
                   /\ cache' = cache]_vars

\* C13 witness: a get found its entry expired and removed it, another entry
\* staying in the cache
C13_Witness ==
    /\ ret.op = "cache_get"
    /\ ret.out = <<"expired">>
    /\ _hash_text(ret.key) \notin Keys(cache)
    /\ cache # <<>>

\* C14: right after put(text, v) has returned, get(text) returns v, and a
\* later put(text, w) makes get(text) return w.
C14_PutGetRoundTrip ==
    [][\A t \in CacheTexts, v \in {E1, E2} :
          (ret'.op = "put" /\ ret'.key = t /\ ret'.val = None /\ put(t, v)) =>
              cache_get_ret(cache', now', ttl_seconds', t) = Ret("cache_get", t, "vector", v)]_vars

\* C14 witness: a put has returned and a get of its text returns the vector
C14_Witness ==
    /\ ret.op = "put"
    /\ ret.val = None
    /\ cache_get_ret(cache, now, ttl_seconds, ret.key).val = "vector"
    /\ \E k \in Keys(cache) : ValueOf(cache, k).timestamp < now

\* C15: no EmbeddingCache operation fails: for every max_size >= 0 and
\* ttl_seconds >= 0, in every reachable cache state, get, put, clear, size
\* and stats return normally, a miss being the return value None.
C15_NoCacheOperationFails ==
    /\ ret.op \in {"put", "clear"} => ret.val = None
    /\ ret.op = "cache_get" => ret.val \in {None, "vector"}
    /\ ret.op = "size" => ret.val = "int"
    /\ ret.op = "stats" => ret.val = "dict"

\* the least of two numbers
Min(x, y) == IF x < y THEN x ELSE y

\* the stage-1 score and the final score of the i-th candidate under a task
adjustedScore(task, candidates, i) ==
    adjusted(encode(task), candidates[i]).relevance_score

finalScore(task, candidates, i) ==
    blended(task, adjusted(encode(task), candidates[i]), keyword_weight).relevance_score

\* result is max_results units of pool with the highest final score, best first
TopOfPool(result, task, candidates, pool, max_results) ==
    LET returned == {i \in DOMAIN candidates :
                        \E r \in DOMAIN result : result[r].context_unit = candidates[i].unit}
    IN  /\ returned \subseteq pool
        /\ Len(result) = Min(max_results, Cardinality(pool))
        /\ Cardinality(returned) = Len(result)
        /\ \A i \in returned, j \in pool \ returned :
               RGe(finalScore(task, candidates, i), finalScore(task, candidates, j))
        /\ Descending(result)

cosine(x, y) ==
    IF Norm(x) = 0 \/ Norm(y) = 0
    THEN Rat(0, 1)
    ELSE Rat(Dot(x, y), Norm(x) * Norm(y))

\* the score the formula gives a unit under a task, blended or not
formula(task, unit, embedding, with_keywords) ==
    LET adjusted_score == RMul(cosine(encode(task), embedding), Rat(unit.confidence, 10))
        T == Words(Lower(task))
        C == Words(Lower(unit.content))
        most == IF Cardinality(T) > 1 THEN Cardinality(T) ELSE 1
        overlap == Rat(Cardinality(T \cap C), most)
        tagMatches == Cardinality({i \in DOMAIN unit.tags :
                                      Contains(Lower(task), Lower(unit.tags[i]))})
    IN  IF with_keywords
        THEN RAdd(RMul(adjusted_score, Rat(7, 10)),
                  RMul(RAdd(overlap, Rat(2 * tagMatches, 10)), Rat(3, 10)))
        ELSE adjusted_score

\* C26: the relevance_score of a unit returned by rank_with_keywords is
\* adjustedScore * (1 - keywordWeight) + (overlap + 0.2 * tagMatches) * keywordWeight
\* with adjustedScore = cosine(task, embedding) * confidence, and the one of a
\* unit returned by rank_contexts is adjustedScore.
C26_ScoreFormula ==
    (ret.op \in {"rank_contexts", "rank_with_keywords"} /\ ret.val = "list") =>
        \A r \in DOMAIN ret.out :
            LET unit == ret.out[r].context_unit
            IN  REq(ret.out[r].relevance_score,
                    formula(ret.key.task, unit, embeddings[unit.id],
                            ret.op = "rank_with_keywords"))

\* C27: when the task vector or a unit's embedding has zero norm, ranking
\* raises no error and returns a list in descending order whose scores are
\* numbers, the score of such a unit being the one a similarity of 0 gives.
C27_ZeroNormIsZero ==
    LET candidates == list_with_embeddings_of(contexts, embeddings)
    IN  (/\ ret.op \in {"rank_contexts", "rank_with_keywords"}
         /\ \/ Norm(encode(ret.key.task)) = 0
            \/ \E i \in DOMAIN candidates : Norm(candidates[i].embedding) = 0)
        => /\ ret.val = "list"
           /\ Descending(ret.out)
           /\ \A r \in DOMAIN ret.out :
                  LET unit == ret.out[r].context_unit
                  IN  /\ ~ret.out[r].relevance_score.nan
                      /\ ret.out[r].relevance_score =
                             formula(ret.key.task, unit, embeddings[unit.id],
                                     ret.op = "rank_with_keywords")

\* C28: rank_contexts and rank_with_keywords leave the store as it is: the
\* stored units with all their fields, status and last_used included, and the
\* embeddings are the same after the call as before.
C28_RankingLeavesStore ==
    [][ret'.op \in {"rank_contexts", "rank_with_keywords"} =>
           /\ contexts' = contexts
           /\ embeddings' = embeddings]_vars

\* C28 witness: a ranking call has returned units of the store, whose
\* last_used is still None
C28_Witness ==
    /\ ret.op \in {"rank_contexts", "rank_with_keywords"}
    /\ ret.val = "list"
    /\ Len(ret.out) = 2
    /\ \A i \in DOMAIN ret.out :
           /\ ret.out[i].context_unit \in Units(contexts)
           /\ ret.out[i].context_unit.last_used = None

\* C29: after add(unit, embedding) with an id already in the store, get of
\* the id returns the new unit, the store holds one unit under the id, and
\* get_embedding of the id returns the embedding supplied with this add, or
\* None when none was supplied.
C29_AddOverwrites ==
    [][\A u \in StoreUnits, e \in StoreEmbeddings :
          (ret'.op = "add" /\ u.id \in Keys(contexts) /\ add(u, e)) =>
              /\ get_ret(contexts', u.id) = Ret("get", u.id, "unit", <<u>>)
              /\ Cardinality({i \in DOMAIN contexts' : contexts'[i].key = u.id}) = 1
              /\ get_embedding_ret(embeddings', u.id) =
                     IF e = NoEmb
                     THEN Ret("get_embedding", u.id, None, <<>>)
                     ELSE Ret("get_embedding", u.id, "vector", e)]_vars

\* the keys of the entries of c that are older than ttl at time t
Expired(c, t, ttl) == {k \in Keys(c) : t - ValueOf(c, k).timestamp > ttl}

\* C30: an expired entry leaves the cache only through get of its own text,
\* through the eviction of a put on a full cache, or through clear; size,
\* stats, get of another text and a put that evicts nothing leave it in, so it
\* counts in size() and in put's capacity test.
C30_LazyExpiry ==
    [][/\ \A k \in Expired(cache, now, ttl_seconds) :
              k \notin Keys(cache') =>
                  \/ ret'.op = "cache_get" /\ _hash_text(ret'.key) = k
                  \/ ret'.op = "put" /\ Len(cache) >= max_size /\ ret'.out = <<k>>
                  \/ ret'.op = "clear"
       /\ ret'.op = "size" => ret'.out[1] = Len(cache)
       /\ ret'.op = "stats" => ret'.out.size = Len(cache)
       /\ (ret'.op = "put" /\ ret'.val = None /\ Len(cache) >= max_size) =>
              /\ Len(ret'.out) = 1
              /\ ret'.out[1] \in Keys(cache)]_vars

\* C30 witness: size has counted an entry that is expired, on a full cache
C30_Witness ==
    /\ ret.op = "size"
    /\ Expired(cache, now, ttl_seconds) # {}
    /\ ret.out[1] = Len(cache)
    /\ Len(cache) = max_size

(***************************************************************************)
(* ContextUnit construction: claims                                        *)
(***************************************************************************)

\* C22: constructing a ContextUnit with confidence outside [0.0, 1.0] or with
\* empty content fails with a validation error; with confidence in [0, 1] and
\* content that is not empty it succeeds and gives status ACTIVE and
\* superseded_by None.
C22_ConstructionValidation ==
    ret.op = "ContextUnit" =>
        IF ~(ret.key.confidence >= 0 /\ ret.key.confidence <= 10) \/ ret.key.content = <<>>
        THEN ret.val = "ValidationError"
        ELSE /\ ret.val = "unit"
             /\ ret.out[1].status = ACTIVE
             /\ ret.out[1].superseded_by = None

(***************************************************************************)
(* concurrent callers: claims                                              *)
(***************************************************************************)

\* C23: a reader that runs while supersede is in progress never observes a
\* half-applied supersede: a unit returned by get with status SUPERSEDED has a
\* superseded_by that is not None and names a unit present in the store.
C23_NoHalfAppliedSupersede ==
    (ret.op = "get" /\ ret.val = "unit" /\ ret.out[1].status = SUPERSEDED) =>
        /\ ret.out[1].superseded_by # None
        /\ ret.out[1].superseded_by \in Keys(contexts)

\* both callers have finished their check-then-insert
BothDone == DOMAIN threads = Callers /\ \A t \in Callers : threads[t].pc = "done"

\* C24: when two callers check-then-insert the same text concurrently, neither
\* call raises an error, the cache ends with exactly one entry for the text,
\* whose value is one of the two vectors, and size() <= max_size.
C24_RaceKeepsCacheSound ==
    BothDone =>
        /\ \A t \in Callers : threads[t].result \notin {"ValueError", "KeyError"}
        /\ Cardinality({i \in DOMAIN cache : cache[i].key = _hash_text(RaceText)}) = 1
        /\ \E t \in Callers :
               ValueOf(cache, _hash_text(RaceText)).embedding = threads[t].embedding
        /\ Len(cache) <= max_size

=============================================================================
